---- MODULE Spec2Model ----
(***************************************************************************)
(* A model of src/print_mem.c: print_bytes_human, memory_absolute and      *)
(* print_memory of i3status.                                                *)
(*                                                                         *)
(* unsigned long is 64 bits wide and TLC's integers are not, so a number   *)
(* is a little-endian sequence of digits in base BINARY_BASE with no       *)
(* leading zero digit (<<>> is 0).  The operators of the first section     *)
(* are exact arithmetic on such numbers; Wrap64 is the reduction modulo    *)
(* 2^64 that every unsigned long operation of the source performs.         *)
(* A C string is the sequence of its characters (without the final NUL).   *)
(***************************************************************************)
EXTENDS Integers, Sequences, FiniteSets, TLC

\* #define BINARY_BASE 1024UL
BINARY_BASE == 1024

\* Width of unsigned long (LP64), and of the significand of a double.
ULONG_BITS == 64
DBL_MANT_DIG == 53

----------------------------------------------------------------------------
(* Exact arithmetic on digit sequences.                                    *)

RECURSIVE Norm(_)
Norm(a) ==
    IF a = <<>> THEN a
    ELSE IF a[Len(a)] = 0 THEN Norm(SubSeq(a, 1, Len(a) - 1)) ELSE a

RECURSIVE Big(_)
Big(n) == IF n = 0 THEN <<>> ELSE <<n % BINARY_BASE>> \o Big(n \div BINARY_BASE)

RECURSIVE AddC(_, _, _)
AddC(a, b, c) ==
    IF a = <<>> /\ b = <<>> THEN Big(c)
    ELSE LET x == IF a = <<>> THEN 0 ELSE Head(a)
             y == IF b = <<>> THEN 0 ELSE Head(b)
             t == x + y + c
         IN  <<t % BINARY_BASE>>
                 \o AddC(IF a = <<>> THEN a ELSE Tail(a),
                         IF b = <<>> THEN b ELSE Tail(b),
                         t \div BINARY_BASE)

Add(a, b) == AddC(a, b, 0)

RECURSIVE SubB(_, _, _)
SubB(a, b, borrow) ==
    IF a = <<>> THEN <<>>
    ELSE LET y == IF b = <<>> THEN 0 ELSE Head(b)
             t == Head(a) - y - borrow
         IN  <<t % BINARY_BASE>>
                 \o SubB(Tail(a), IF b = <<>> THEN b ELSE Tail(b),
                         IF t < 0 THEN 1 ELSE 0)

\* a - b, for b <= a.
Sub(a, b) == Norm(SubB(a, b, 0))

RECURSIVE LessFrom(_, _, _)
LessFrom(a, b, i) ==
    IF i = 0 THEN FALSE
    ELSE IF a[i] # b[i] THEN a[i] < b[i] ELSE LessFrom(a, b, i - 1)

Less(a, b) ==
    \/ Len(a) < Len(b)
    \/ Len(a) = Len(b) /\ LessFrom(a, b, Len(a))

RECURSIVE MulSmallC(_, _, _)
MulSmallC(a, k, c) ==
    IF a = <<>> THEN Big(c)
    ELSE LET t == Head(a) * k + c
         IN  <<t % BINARY_BASE>> \o MulSmallC(Tail(a), k, t \div BINARY_BASE)

\* a * k, for a machine-sized k in 0..BINARY_BASE.
MulSmall(a, k) == Norm(MulSmallC(a, k, 0))

RECURSIVE Mul(_, _)
Mul(a, b) ==
    IF a = <<>> \/ b = <<>> THEN <<>>
    ELSE Add(MulSmall(a, Head(b)), Norm(<<0>> \o Mul(a, Tail(b))))

RECURSIVE DivRem(_, _)
DivRem(a, d) ==
    IF a = <<>> THEN [q |-> <<>>, r |-> 0]
    ELSE LET hi == DivRem(Tail(a), d)
             t  == hi.r * BINARY_BASE + Head(a)
         IN  [q |-> <<t \div d>> \o hi.q, r |-> t % d]

\* a / d truncated, for a machine-sized d in 1..BINARY_BASE.
DivSmall(a, d) == Norm(DivRem(a, d).q)

RECURSIVE Log2(_)
Log2(n) == IF n <= 1 THEN 0 ELSE 1 + Log2(n \div 2)

RECURSIVE Pow2(_)
Pow2(n) == IF n = 0 THEN 1 ELSE 2 * Pow2(n - 1)

BaseBits == Log2(BINARY_BASE)

\* 2^n as a digit sequence.
Pow2Big(n) ==
    LET full == n \div BaseBits
        f    == [i \in 1..(full + 1) |->
                     IF i <= full THEN 0 ELSE Pow2(n % BaseBits)]
    IN  SubSeq(f, 1, full + 1)

\* a mod 2^bits.
Mod2(a, bits) ==
    LET full == bits \div BaseBits
        part == bits % BaseBits
        n    == IF Len(a) < full + 1 THEN Len(a) ELSE full + 1
        f    == [i \in 1..n |-> IF i <= full THEN a[i] ELSE a[i] % Pow2(part)]
    IN  Norm(SubSeq(f, 1, n))

BitLen(a) ==
    IF a = <<>> THEN 0
    ELSE BaseBits * (Len(a) - 1) + Log2(a[Len(a)]) + 1

----------------------------------------------------------------------------
(* unsigned long and double.                                               *)

TwoTo64 == Pow2Big(ULONG_BITS)
ULONG_MAX == Sub(TwoTo64, Big(1))

\* The value an unsigned long holds after an operation whose exact result is a.
Wrap64(a) == Mod2(a, ULONG_BITS)

\* a - b in unsigned long.
USub(a, b) == IF Less(a, b) THEN Sub(Add(a, TwoTo64), b) ELSE Sub(a, b)

\* a * k in unsigned long.
UMulSmall(a, k) == Wrap64(MulSmall(a, k))

\* a * b in unsigned long.
UMul(a, b) == Wrap64(Mul(a, b))

\* BINARY_BASE^e as a digit sequence.
PowBase(e) ==
    LET f == [i \in 1..(e + 1) |-> IF i <= e THEN 0 ELSE 1]
    IN  SubSeq(f, 1, e + 1)

\* (double)a for an unsigned long a: a itself when it has at most DBL_MANT_DIG
\* significant bits, else a rounded to DBL_MANT_DIG significant bits, ties to
\* even (the result may be 2^64).
ToDouble(a) ==
    LET k == BitLen(a) - DBL_MANT_DIG
    IN  IF k <= 0 THEN a
        ELSE LET r    == Mod2(a, k)
                 ulp  == Pow2Big(k)
                 half == Pow2Big(k - 1)
                 odd  == ~Less(Mod2(a, k + 1), ulp)
                 down == Sub(a, r)
             IN  IF Less(half, r) \/ (r = half /\ odd)
                 THEN Add(down, ulp) ELSE down

\* A double of the form m / BINARY_BASE^e is the record [m |-> m, e |-> e],
\* kept in lowest terms so that equal values are equal records.
RECURSIVE Dbl(_, _)
Dbl(m, e) ==
    IF e > 0 /\ m # <<>> /\ Head(m) = 0 THEN Dbl(Tail(m), e - 1)
    ELSE IF m = <<>> THEN [m |-> m, e |-> 0]
    ELSE [m |-> m, e |-> e]

\* base >= BINARY_BASE
DblGeBase(base) == ~Less(base.m, PowBase(base.e + 1))

\* base / BINARY_BASE (exact in binary floating point)
DblDivBase(base) == Dbl(base.m, base.e + 1)

----------------------------------------------------------------------------
(* C strings and <ctype.h>, <stdlib.h>, <strings.h>.                        *)

NUL == ""
DIGITS == <<"0", "1", "2", "3", "4", "5", "6", "7", "8", "9">>
UPPER == <<"A", "B", "C", "D", "E", "F", "G", "H", "I", "J", "K", "L", "M",
           "N", "O", "P", "Q", "R", "S", "T", "U", "V", "W", "X", "Y", "Z">>
LOWER == <<"a", "b", "c", "d", "e", "f", "g", "h", "i", "j", "k", "l", "m",
           "n", "o", "p", "q", "r", "s", "t", "u", "v", "w", "x", "y", "z">>

isspace(c) == c \in {" ", "\t", "\n", "\r", "\f"}
isdigit(c) == \E i \in 1..Len(DIGITS) : DIGITS[i] = c
DigitValue(c) == (CHOOSE i \in 1..Len(DIGITS) : DIGITS[i] = c) - 1

tolower(c) ==
    IF \E i \in 1..Len(UPPER) : UPPER[i] = c
    THEN LOWER[CHOOSE i \in 1..Len(UPPER) : UPPER[i] = c]
    ELSE c

\* strcasecmp(a, b) == 0
strcasecmp0(a, b) ==
    /\ Len(a) = Len(b)
    /\ \A i \in 1..Len(a) : tolower(a[i]) = tolower(b[i])

\* The first character of a C string (NUL for the empty string).
First(s) == IF s = <<>> THEN NUL ELSE Head(s)

RECURSIVE SkipSpace(_)
SkipSpace(s) == IF s # <<>> /\ isspace(Head(s)) THEN SkipSpace(Tail(s)) ELSE s

\* The digits loop of strtoul: the value so far, whether it left the range
\* of unsigned long, and what follows the digits.
RECURSIVE StrtoulDigits(_, _, _)
StrtoulDigits(s, acc, range) ==
    IF s = <<>> \/ ~isdigit(Head(s))
    THEN [val |-> acc, range |-> range, endptr |-> s]
    ELSE LET next == Add(MulSmall(acc, 10), Big(DigitValue(Head(s))))
             over == range \/ Less(ULONG_MAX, next)
         IN  StrtoulDigits(Tail(s), IF over THEN ULONG_MAX ELSE next, over)

\* strtoul(s, &endptr, 10): leading white space, an optional sign, decimal
\* digits.  Without digits the value is 0 and endptr is s; a value out of
\* range is ULONG_MAX; a minus sign negates the value in unsigned long.
strtoul(s) ==
    LET t == SkipSpace(s)
        u == IF First(t) \in {"+", "-"} THEN Tail(t) ELSE t
    IN  IF ~isdigit(First(u)) THEN [val |-> <<>>, endptr |-> s]
        ELSE LET d == StrtoulDigits(u, <<>>, FALSE)
             IN  [val    |-> IF d.range THEN ULONG_MAX
                             ELSE IF First(t) = "-" THEN USub(<<>>, d.val)
                             ELSE d.val,
                  endptr |-> d.endptr]

----------------------------------------------------------------------------
(* print_bytes_human                                                       *)

iec_symbols == << <<"B">>, <<"K", "i", "B">>, <<"M", "i", "B">>,
                  <<"G", "i", "B">>, <<"T", "i", "B">> >>
MAX_EXPONENT == Len(iec_symbols) - 1

\* HumanLoop without the strcasecmp test.
RECURSIVE HumanLoop_AnyUnit(_, _, _)
HumanLoop_AnyUnit(base, exponent, unit) ==
    IF DblGeBase(base) /\ exponent < MAX_EXPONENT
    THEN HumanLoop_AnyUnit(DblDivBase(base), exponent + 1, unit)
    ELSE [base |-> base, exponent |-> exponent]

\* The while loop of print_bytes_human; iec_symbols[exponent] of the source
\* is iec_symbols[exponent + 1] here (sequences start at 1).
RECURSIVE HumanLoop(_, _, _)
HumanLoop(base, exponent, unit) ==
    IF DblGeBase(base) /\ exponent < MAX_EXPONENT
    THEN IF strcasecmp0(unit, iec_symbols[exponent + 1])
         THEN [base |-> base, exponent |-> exponent]
         ELSE HumanLoop(DblDivBase(base), exponent + 1, unit)
    ELSE [base |-> base, exponent |-> exponent]

\* What print_bytes_human hands to sprintf("%.*f %s", ...): the text written
\* is libc's rendering of these arguments.
print_bytes_human(bytes, unit, decimals) ==
    LET r == HumanLoop(Dbl(ToDouble(bytes), 0), 0, unit)
    IN  [fmt      |-> "%.*f %s",
         decimals |-> decimals,
         base     |-> r.base,
         symbol   |-> iec_symbols[r.exponent + 1]]

----------------------------------------------------------------------------
(* memory_absolute                                                         *)

\* The switch of memory_absolute, one operator per group of case labels;
\* a group without break falls through into the next one.
CaseK(amount) == UMulSmall(amount, BINARY_BASE)
CaseM(amount) == CaseK(UMulSmall(amount, BINARY_BASE))
\* CaseG with a break after its multiplication.
CaseG_Break(amount) == UMulSmall(amount, BINARY_BASE)
CaseG(amount) == CaseM(UMulSmall(amount, BINARY_BASE))
CaseT(amount) == CaseG(UMulSmall(amount, BINARY_BASE))
CasePercent(amount, mem_total) == DivSmall(UMul(mem_total, amount), 100)

memory_absolute(mem_amount, mem_total) ==
    LET parsed == strtoul(mem_amount)
        amount == parsed.val
        endptr == SkipSpace(parsed.endptr)
        c      == First(endptr)
    IN  CASE c \in {"T", "t"} -> CaseT(amount)
          [] c \in {"G", "g"} -> CaseG(amount)
          [] c \in {"M", "m"} -> CaseM(amount)
          [] c \in {"K", "k"} -> CaseK(amount)
          [] c = "%"          -> CasePercent(amount, mem_total)
          [] OTHER            -> amount

----------------------------------------------------------------------------
(* i3status.h and the output sink that print_memory writes to.            *)

\* BEGINS_WITH(haystack, needle): strncmp(haystack, needle, strlen(needle)) == 0
BEGINS_WITH(haystack, needle) ==
    /\ Len(haystack) >= Len(needle)
    /\ SubSeq(haystack, 1, Len(needle)) = needle

\* The global percent mark appended to percentages.
pct_mark == <<"%">>

\* A character stored in the output buffer.
Lit(c) == [lit |-> c]

\* A string literal as the buffer holds it.
Text(s) == SubSeq([i \in 1..Len(s) |-> Lit(s[i])], 1, Len(s))

START_COLOR(colorstr) == [ev |-> "START_COLOR", color |-> colorstr, text |-> <<>>]
END_COLOR == [ev |-> "END_COLOR", color |-> "", text |-> <<>>]
OUTPUT_FULL_TEXT(text) == [ev |-> "OUTPUT_FULL_TEXT", color |-> "", text |-> text]

----------------------------------------------------------------------------
(* print_memory                                                            *)

\* A null pointer argument, an unset output_color, and the indeterminate
\* value of a local variable that was declared and never assigned.
NULL == <<"(null)">>
NoColor == "(null)"
Uninit == <<-1>>

LabelMemTotal == <<"M", "e", "m", "T", "o", "t", "a", "l", ":">>
LabelMemFree == <<"M", "e", "m", "F", "r", "e", "e", ":">>
LabelMemAvailable == <<"M", "e", "m", "A", "v", "a", "i", "l", "a", "b", "l", "e", ":">>
LabelBuffers == <<"B", "u", "f", "f", "e", "r", "s", ":">>
LabelCached == <<"C", "a", "c", "h", "e", "d", ":">>
LabelShmem == <<"S", "h", "m", "e", "m", ":">>

\* The if / else-if chain of the read loop, in the order of the source.
FIELDS ==
    << [label |-> LabelMemTotal,     var |-> "ram_total"],
       [label |-> LabelMemFree,      var |-> "ram_free"],
       [label |-> LabelMemAvailable, var |-> "ram_available"],
       [label |-> LabelBuffers,      var |-> "ram_buffers"],
       [label |-> LabelCached,       var |-> "ram_cached"],
       [label |-> LabelShmem,        var |-> "ram_shared"] >>

\* The index in FIELDS of the first branch that takes the line, 0 for the
\* final else (continue).
FieldOf(line) ==
    IF \E i \in 1..Len(FIELDS) : BEGINS_WITH(line, FIELDS[i].label)
    THEN CHOOSE i \in 1..Len(FIELDS) :
             /\ BEGINS_WITH(line, FIELDS[i].label)
             /\ \A j \in 1..(i - 1) : ~BEGINS_WITH(line, FIELDS[j].label)
    ELSE 0

\* strtoul(line + strlen(label), NULL, 10)
FieldValue(line, i) ==
    strtoul(SubSeq(line, Len(FIELDS[i].label) + 1, Len(line))).val

\* The else-if chain of the format loop, in the order of the source: the
\* token after '%', the variable it prints and whether it prints it as a
\* percentage of ram_total.
TOKENS ==
    << [name |-> <<"t", "o", "t", "a", "l">>,                var |-> "ram_total",     pct |-> FALSE],
       [name |-> <<"u", "s", "e", "d">>,                 var |-> "ram_used",      pct |-> FALSE],
       [name |-> <<"f", "r", "e", "e">>,                 var |-> "ram_free",      pct |-> FALSE],
       [name |-> <<"a", "v", "a", "i", "l", "a", "b", "l", "e">>,            var |-> "ram_available", pct |-> FALSE],
       [name |-> <<"s", "h", "a", "r", "e", "d">>,               var |-> "ram_shared",    pct |-> FALSE],
       [name |-> <<"p", "e", "r", "c", "e", "n", "t", "a", "g", "e", "_", "f", "r", "e", "e">>,      var |-> "ram_free",      pct |-> TRUE],
       [name |-> <<"p", "e", "r", "c", "e", "n", "t", "a", "g", "e", "_", "a", "v", "a", "i", "l", "a", "b", "l", "e">>, var |-> "ram_available", pct |-> TRUE],
       [name |-> <<"p", "e", "r", "c", "e", "n", "t", "a", "g", "e", "_", "u", "s", "e", "d">>,      var |-> "ram_used",      pct |-> TRUE],
       [name |-> <<"p", "e", "r", "c", "e", "n", "t", "a", "g", "e", "_", "s", "h", "a", "r", "e", "d">>,    var |-> "ram_shared",    pct |-> TRUE] >>

\* The index in TOKENS of the first branch whose BEGINS_WITH(walk + 1, ...)
\* holds, 0 for the final else.
TokenAt(rest) ==
    IF \E i \in 1..Len(TOKENS) : BEGINS_WITH(rest, TOKENS[i].name)
    THEN CHOOSE i \in 1..Len(TOKENS) :
             /\ BEGINS_WITH(rest, TOKENS[i].name)
             /\ \A j \in 1..(i - 1) : ~BEGINS_WITH(rest, TOKENS[j].name)
    ELSE 0

\* The variables the branch of token i reads.
TokenReads(i) ==
    IF TOKENS[i].pct THEN {TOKENS[i].var, "ram_total"} ELSE {TOKENS[i].var}

\* What the branch of token i hands to sprintf: print_bytes_human's
\* arguments, or those of sprintf("%.01f%s", 100.0 * num / den, pct_mark).
TokenItem(i, r, unit, decimals) ==
    IF TOKENS[i].pct
    THEN [fmt |-> "%.01f%s", num |-> r[TOKENS[i].var], den |-> r.ram_total,
          mark |-> pct_mark]
    ELSE print_bytes_human(r[TOKENS[i].var], unit, decimals)

----------------------------------------------------------------------------
(* Bounds and the inputs drawn within them.                                *)

\* A counter of /proc/meminfo is at most MaxKB (in kB).
MaxKB == 3
\* A format template is at most MaxPieces pieces of Pieces long.
MaxPieces == 2

RECURSIVE Decimal(_)
Decimal(n) ==
    IF n < 10 THEN <<DIGITS[n + 1]>>
    ELSE Decimal(n \div 10) \o <<DIGITS[(n % 10) + 1]>>

MeminfoLine(label, kb) == label \o <<" ">> \o Decimal(kb) \o <<" ", "k", "B", "\n">>

\* The lines of /proc/meminfo: MemTotal and MemAvailable with any counter in
\* 0..MaxKB, the other four fields with 1 kB, and a line no branch takes.
TotalLines == {MeminfoLine(LabelMemTotal, kb) : kb \in 0..MaxKB}
AvailableLines == {MeminfoLine(LabelMemAvailable, kb) : kb \in 0..MaxKB}
OtherLine == MeminfoLine(<<"S", "w", "a", "p", "C", "a", "c", "h", "e", "d", ":">>, 2)
LineSet ==
    TotalLines \cup AvailableLines
        \cup {MeminfoLine(l, 1) :
                  l \in {LabelMemFree, LabelBuffers, LabelCached, LabelShmem}}
        \cup {OtherLine}

\* What fgets returns at the end of the input, in place of a line.
EOF == <<>>

\* /proc/meminfo is the sequence of what each successive fgets may return.
\* AnyFile is every file of at most MaxLines lines of LineSet; UsualFile is
\* the file of a Linux kernel, each field once and in the kernel's order.
MaxLines == 7
AnyFile == SubSeq([k \in 1..MaxLines |-> LineSet \cup {EOF}], 1, MaxLines)
UsualFile ==
    << TotalLines,
       {MeminfoLine(LabelMemFree, 1)},
       AvailableLines,
       {MeminfoLine(LabelBuffers, 1)},
       {MeminfoLine(LabelCached, 1)},
       {OtherLine},
       {MeminfoLine(LabelShmem, 1)},
       {OtherLine} >>

\* What an indeterminate unsigned long may turn out to hold.
Garbage == {<<>>, USub(<<>>, Big(BINARY_BASE))}

\* What the sysctl calls of the FreeBSD build may report.
PageSizes == {Big(4096)}
PhysMems == {Big(4096), Big(8192)}
FreeCounts == {Big(0), Big(1)}

Platforms == {"linux", "FreeBSD", "other"}

Pieces ==
    {<<"%", "t", "o", "t", "a", "l">>, <<"%", "u", "s", "e", "d">>, <<"%", "p", "e", "r", "c", "e", "n", "t", "a", "g", "e", "_", "f", "r", "e", "e">>, <<"%">>, <<"b">>}

RECURSIVE Concats(_)
Concats(n) ==
    IF n = 0 THEN {<<>>}
    ELSE LET shorter == Concats(n - 1)
         IN  shorter \cup {p \o t : p \in Pieces, t \in shorter}

Templates ==
    Concats(MaxPieces)
        \cup {<<"%">> \o TOKENS[i].name : i \in 1..Len(TOKENS)}
        \cup {<<"%", "u", "s", "e", "d", "/", "%", "t", "o", "t", "a", "l">>, <<"%", "b", "o", "g", "u", "s">>, <<"%", "t", "o", "t", "a", "l", "l", "y">>, <<"%", "p", "e", "r", "c", "e", "n", "t", "a", "g", "e", "_", "u", "s", "e", "d", "x", "%">>}

Thresholds == {NULL, <<"1", "K">>, <<"3", "K">>, <<"5", "0", "%">>}

Methods == {<<"m", "e", "m", "a", "v", "a", "i", "l", "a", "b", "l", "e">>, <<"c", "l", "a", "s", "s", "i", "c", "a", "l">>, <<"c", "l", "a", "s", "s", "i", "c", "a", "l", "2">>, <<"f", "r", "e", "e">>}

Units == {<<"a", "u", "t", "o">>, <<"K", "i", "B">>, <<"b">>}

Arguments(formats, degradeds, tds, tcs, methods, units, decs) ==
    [fn                 : {"print_memory"},
     format             : formats,
     format_degraded    : degradeds,
     threshold_degraded : tds,
     threshold_critical : tcs,
     memory_used_method : methods,
     unit               : units,
     decimals           : decs]

\* The configurations print_memory is called with on any file.
FewConfigs ==
    Arguments({<<"%", "f", "r", "e", "e", " ", "%", "u", "s", "e", "d">>}, {NULL}, {<<"3", "K">>}, {NULL},
              {<<"m", "e", "m", "a", "v", "a", "i", "l", "a", "b", "l", "e">>, <<"f", "r", "e", "e">>}, {<<"a", "u", "t", "o">>}, {1})

\* The configurations print_memory is called with on the usual file and on
\* FreeBSD: every pair of thresholds with and without a degraded format,
\* every method, every template, every unit, each with the other arguments
\* at a usual value.
Configs ==
    Arguments({<<"%", "a", "v", "a", "i", "l", "a", "b", "l", "e">>}, {NULL, <<"l", "o", "w", " ", "%", "f", "r", "e", "e">>}, Thresholds,
              Thresholds, {<<"m", "e", "m", "a", "v", "a", "i", "l", "a", "b", "l", "e">>}, {<<"a", "u", "t", "o">>}, {1})
        \cup Arguments({<<"%", "u", "s", "e", "d">>, <<"%", "p", "e", "r", "c", "e", "n", "t", "a", "g", "e", "_", "u", "s", "e", "d">>}, {NULL}, {NULL, <<"3", "K">>},
                       {NULL}, Methods, {<<"a", "u", "t", "o">>}, {1})
        \cup Arguments(Templates, {NULL}, {NULL}, {NULL}, {<<"m", "e", "m", "a", "v", "a", "i", "l", "a", "b", "l", "e">>},
                       {<<"a", "u", "t", "o">>}, {1})
        \cup Arguments({<<"%", "t", "o", "t", "a", "l">>}, {NULL}, {NULL}, {NULL}, {<<"c", "l", "a", "s", "s", "i", "c", "a", "l">>},
                       Units, {0, 1})

----------------------------------------------------------------------------
(* State.                                                                  *)

VARIABLES
    platform,        \* which #if branch of print_memory was compiled
    args,            \* the arguments of the call
    meminfo,         \* what the fgets calls to come may return
    ret,             \* the value a called function returned
    pc,              \* where print_memory is
    unread_fields,
    ram,             \* ram_total, ram_free, ..., ram_used
    page_size,
    output_color,
    selected_format, \* the argument selected_format points to
    walk,            \* walk - selected_format + 1
    buffer,          \* buffer[0 .. outwalk - buffer)
    sink,            \* START_COLOR, END_COLOR and OUTPUT_FULL_TEXT so far
    stderr,          \* lines written to stderr
    seen,            \* the variables a line read so far was stored into
    undef            \* the variables read while indeterminate

vars == <<platform, args, meminfo, ret, pc, unread_fields, ram, page_size, output_color,
          selected_format, walk, buffer, sink, stderr, seen, undef>>

NoRet == [returned |-> FALSE]
Returned(value) == [returned |-> TRUE, value |-> value]
RamVars == {"ram_total", "ram_free", "ram_available", "ram_buffers",
            "ram_cached", "ram_shared", "ram_used"}

\* The locals of print_memory before its first statement.
Locals ==
    /\ pc = "entry"
    /\ unread_fields = 6
    /\ ram = [v \in RamVars |-> Uninit]
    /\ page_size = Uninit
    /\ output_color = NoColor
    /\ selected_format = "format"
    /\ walk = 0
    /\ buffer = <<>>
    /\ sink = <<>>
    /\ stderr = <<>>
    /\ seen = {}
    /\ undef = {}

Init ==
    /\ platform \in Platforms
    /\ \/ args \in Configs /\ meminfo = UsualFile
       \/ args \in FewConfigs /\ meminfo = AnyFile /\ platform = "linux"
    /\ ret = NoRet
    /\ Locals

\* The records r that agree with ram except that each variable of names that
\* is indeterminate in ram holds some value in r: reading an indeterminate
\* variable yields whatever its storage happens to hold.
Resolve(names) ==
    {[v \in RamVars |-> IF v \in names /\ ram[v] = Uninit THEN g[v] ELSE ram[v]] :
        g \in [names -> Garbage]}

Indeterminate(names) == {v \in names : ram[v] = Uninit}

----------------------------------------------------------------------------
(* The Linux reader: /proc/meminfo.                                        *)

\* file = fopen("/proc/meminfo", "r"); if (!file) goto error;
Fopen ==
    /\ platform = "linux"
    /\ pc = "entry"
    /\ \E opened \in BOOLEAN : pc' = IF opened THEN "fgets" ELSE "error"
    /\ UNCHANGED <<platform, args, meminfo, ret, unread_fields, ram, page_size,
                   output_color, selected_format, walk, buffer, sink, stderr,
                   seen, undef>>

\* One pass of the for loop: fgets returns a line; the branch that takes it
\* stores its number, and the loop ends when unread_fields reaches 0.
ReadLine ==
    /\ pc = "fgets"
    /\ meminfo # <<>>
    /\ meminfo' = Tail(meminfo)
    /\ \E line \in Head(meminfo) \ {EOF} :
           LET i == FieldOf(line)
           IN  IF i = 0
               THEN UNCHANGED <<pc, unread_fields, ram, seen>>
               ELSE /\ ram' = [ram EXCEPT ![FIELDS[i].var] = FieldValue(line, i)]
                    /\ seen' = seen \cup {FIELDS[i].var}
                    /\ unread_fields' = unread_fields - 1
                    /\ pc' = IF unread_fields - 1 = 0 THEN "fclose" ELSE "fgets"
    /\ UNCHANGED <<platform, args, ret, page_size, output_color,
                   selected_format, walk, buffer, sink, stderr, undef>>

\* fgets returns NULL at the end of the input.
ReadEof ==
    /\ pc = "fgets"
    /\ IF meminfo = <<>> THEN TRUE ELSE EOF \in Head(meminfo)
    /\ meminfo' = <<>>
    /\ pc' = "fclose"
    /\ UNCHANGED <<platform, args, ret, unread_fields, ram, page_size,
                   output_color, selected_format, walk, buffer, sink, stderr,
                   seen, undef>>

\* ram_x *= 1024UL; an indeterminate value stays indeterminate.
ToBytes(kb) == IF kb = Uninit THEN Uninit ELSE UMulSmall(kb, 1024)

\* fclose(file); if (unread_fields > 0) goto error; then kB to bytes.
AfterRead ==
    /\ pc = "fclose"
    /\ IF unread_fields > 0
       THEN /\ pc' = "error"
            /\ UNCHANGED ram
       ELSE /\ pc' = "used"
            /\ ram' = [v \in RamVars |->
                          IF v = "ram_used" THEN ram[v] ELSE ToBytes(ram[v])]
    /\ UNCHANGED <<platform, args, meminfo, ret, unread_fields, page_size,
                   output_color, selected_format, walk, buffer, sink, stderr,
                   seen, undef>>

----------------------------------------------------------------------------
(* The FreeBSD reader: sysctlbyname.                                       *)

SysctlPageSize ==
    /\ platform = "FreeBSD"
    /\ pc = "entry"
    /\ \/ \E p \in PageSizes : page_size' = p /\ pc' = "hw.physmem"
       \/ pc' = "error" /\ UNCHANGED page_size
    /\ UNCHANGED <<platform, args, meminfo, ret, unread_fields, ram, output_color,
                   selected_format, walk, buffer, sink, stderr, seen, undef>>

SysctlPhysmem ==
    /\ pc = "hw.physmem"
    /\ \/ \E m \in PhysMems :
              /\ ram' = [ram EXCEPT !.ram_total = m]
              /\ pc' = "v_free_count"
       \/ pc' = "error" /\ UNCHANGED ram
    /\ UNCHANGED <<platform, args, meminfo, ret, unread_fields, page_size,
                   output_color, selected_format, walk, buffer, sink, stderr,
                   seen, undef>>

SysctlFreeCount ==
    /\ pc = "v_free_count"
    /\ \/ \E n \in FreeCounts :
              /\ ram' = [ram EXCEPT !.ram_free = UMul(n, page_size),
                                    !.ram_available = <<>>,
                                    !.ram_buffers = <<>>,
                                    !.ram_cached = <<>>,
                                    !.ram_shared = <<>>]
              /\ pc' = "used"
       \/ pc' = "error" /\ UNCHANGED ram
    /\ UNCHANGED <<platform, args, meminfo, ret, unread_fields, page_size,
                   output_color, selected_format, walk, buffer, sink, stderr,
                   seen, undef>>

\* Neither: OUTPUT_FULL_TEXT(""), a message on stderr, return.
Unsupported ==
    /\ platform = "other"
    /\ pc = "entry"
    /\ sink' = Append(sink, OUTPUT_FULL_TEXT(<<>>))
    /\ stderr' = Append(stderr,
           "i3status: Memory status information is not supported on this system\n")
    /\ pc' = "done"
    /\ UNCHANGED <<platform, args, meminfo, ret, unread_fields, ram, page_size,
                   output_color, selected_format, walk, buffer, seen, undef>>

----------------------------------------------------------------------------
(* Used memory, thresholds, colour and format.                             *)

UsedMemavailable(r) == USub(r.ram_total, r.ram_available)

\* UsedClassical without the cached pages.
UsedClassical_NoCached(r) ==
    USub(USub(r.ram_total, r.ram_free), r.ram_buffers)

UsedClassical(r) ==
    USub(USub(USub(r.ram_total, r.ram_free), r.ram_buffers), r.ram_cached)

\* ram_used is assigned under either method name and left alone otherwise.
ComputeUsed ==
    /\ pc = "used"
    /\ IF BEGINS_WITH(args.memory_used_method, <<"m", "e", "m", "a", "v", "a", "i", "l", "a", "b", "l", "e">>)
       THEN LET reads == {"ram_total", "ram_available"}
            IN  /\ \E r \in Resolve(reads) :
                       ram' = [r EXCEPT !.ram_used = UsedMemavailable(r)]
                /\ undef' = undef \cup Indeterminate(reads)
       ELSE IF BEGINS_WITH(args.memory_used_method, <<"c", "l", "a", "s", "s", "i", "c", "a", "l">>)
       THEN LET reads == {"ram_total", "ram_free", "ram_buffers", "ram_cached"}
            IN  /\ \E r \in Resolve(reads) :
                       ram' = [r EXCEPT !.ram_used = UsedClassical(r)]
                /\ undef' = undef \cup Indeterminate(reads)
       ELSE UNCHANGED <<ram, undef>>
    /\ pc' = "threshold_degraded"
    /\ UNCHANGED <<platform, args, meminfo, ret, unread_fields, page_size,
                   output_color, selected_format, walk, buffer, sink, stderr,
                   seen>>

\* Colour with <= for <.
Colour_AtMost(color, available, threshold, colorstr) ==
    IF ~Less(threshold, available) THEN colorstr ELSE color

\* if (ram_available < threshold) output_color = colorstr;
Colour(color, available, threshold, colorstr) ==
    IF Less(available, threshold) THEN colorstr ELSE color

\* if (threshold_x) { threshold = memory_absolute(threshold_x, ram_total); ... }
CheckThreshold(spec, colorstr) ==
    IF spec # NULL
    THEN LET reads == {"ram_total", "ram_available"}
         IN  /\ \E r \in Resolve(reads) :
                    /\ ram' = r
                    /\ output_color' =
                           Colour(output_color, r.ram_available,
                                  memory_absolute(spec, r.ram_total), colorstr)
             /\ undef' = undef \cup Indeterminate(reads)
    ELSE UNCHANGED <<ram, undef, output_color>>

CheckDegraded ==
    /\ pc = "threshold_degraded"
    /\ CheckThreshold(args.threshold_degraded, "color_degraded")
    /\ pc' = "threshold_critical"
    /\ UNCHANGED <<platform, args, meminfo, ret, unread_fields, page_size,
                   selected_format, walk, buffer, sink, stderr, seen>>

CheckCritical ==
    /\ pc = "threshold_critical"
    /\ CheckThreshold(args.threshold_critical, "color_bad")
    /\ pc' = "output_color"
    /\ UNCHANGED <<platform, args, meminfo, ret, unread_fields, page_size,
                   selected_format, walk, buffer, sink, stderr, seen>>

\* SelectedFormat taking the degraded format in the degraded state only.
SelectedFormat_DegradedOnly(color, format_degraded, current) ==
    IF color = "color_degraded" /\ format_degraded # NULL
    THEN "format_degraded" ELSE current

\* if (output_color) { ...; if (format_degraded) selected_format = format_degraded; }
SelectedFormat(color, format_degraded, current) ==
    IF color # NoColor /\ format_degraded # NULL
    THEN "format_degraded" ELSE current

\* if (output_color) { START_COLOR(output_color); ... }; walk = selected_format
StartColor ==
    /\ pc = "output_color"
    /\ sink' = IF output_color # NoColor
               THEN Append(sink, START_COLOR(output_color)) ELSE sink
    /\ selected_format' =
           SelectedFormat(output_color, args.format_degraded, selected_format)
    /\ walk' = 1
    /\ pc' = "format"
    /\ UNCHANGED <<platform, args, meminfo, ret, unread_fields, ram, page_size,
                   output_color, buffer, stderr, seen, undef>>

----------------------------------------------------------------------------
(* The format loop.                                                        *)

\* The string selected_format points to.
Template == args[selected_format]

\* SkipToken one character short.
SkipToken_Short(w, i) == w + Len(TOKENS[i].name) - 1

\* walk += strlen(token) in the branch of token i.
SkipToken(w, i) == w + Len(TOKENS[i].name)

\* One pass of the for loop, with its walk++.
FormatStep ==
    /\ pc = "format"
    /\ walk <= Len(Template)
    /\ LET i == TokenAt(SubSeq(Template, walk + 1, Len(Template)))
       IN  IF Template[walk] # "%"
           THEN /\ buffer' = Append(buffer, Lit(Template[walk]))
                /\ walk' = walk + 1
                /\ UNCHANGED <<ram, undef>>
           ELSE IF i # 0
           THEN /\ \E r \in Resolve(TokenReads(i)) :
                       /\ ram' = r
                       /\ buffer' = Append(buffer,
                              TokenItem(i, r, args.unit, args.decimals))
                /\ undef' = undef \cup Indeterminate(TokenReads(i))
                /\ walk' = SkipToken(walk, i) + 1
           ELSE /\ buffer' = Append(buffer, Lit("%"))
                /\ walk' = walk + 1
                /\ UNCHANGED <<ram, undef>>
    /\ UNCHANGED <<platform, args, meminfo, ret, pc, unread_fields, page_size,
                   output_color, selected_format, sink, stderr, seen>>

\* FinishEvents without END_COLOR.
FinishEvents_NoEnd(color, text) == <<OUTPUT_FULL_TEXT(text)>>

\* if (output_color) END_COLOR; *outwalk = '\0'; OUTPUT_FULL_TEXT(buffer);
FinishEvents(color, text) ==
    (IF color # NoColor THEN <<END_COLOR>> ELSE <<>>) \o <<OUTPUT_FULL_TEXT(text)>>

Finish ==
    /\ pc = "format"
    /\ walk > Len(Template)
    /\ sink' = sink \o FinishEvents(output_color, buffer)
    /\ pc' = "done"
    /\ UNCHANGED <<platform, args, meminfo, ret, unread_fields, ram, page_size,
                   output_color, selected_format, walk, buffer, stderr, seen,
                   undef>>

\* error: OUTPUT_FULL_TEXT("can't read memory"); and a message on stderr.
ErrorEvents == <<OUTPUT_FULL_TEXT(Text(<<"c", "a", "n", "'", "t", " ", "r", "e", "a", "d", " ", "m", "e", "m", "o", "r", "y">>))>>

Error ==
    /\ pc = "error"
    /\ sink' = sink \o ErrorEvents
    /\ stderr' = Append(stderr, "i3status: Cannot read system memory\n")
    /\ pc' = "done"
    /\ UNCHANGED <<platform, args, meminfo, ret, unread_fields, ram, page_size,
                   output_color, selected_format, walk, buffer, seen, undef>>

Next ==
    \/ Fopen
    \/ ReadLine
    \/ ReadEof
    \/ AfterRead
    \/ SysctlPageSize
    \/ SysctlPhysmem
    \/ SysctlFreeCount
    \/ Unsupported
    \/ ComputeUsed
    \/ CheckDegraded
    \/ CheckCritical
    \/ StartColor
    \/ FormatStep
    \/ Finish
    \/ Error

Spec == Init /\ [][Next]_vars

----------------------------------------------------------------------------
(* memory_absolute and print_bytes_human on their own: the arguments are   *)
(* drawn in the initial state and one action applies the function.         *)

\* A threshold is written with a number of 0..MaxAmount or one of a few
\* larger ones, each given with the value it denotes.
MaxAmount == 3
Numerals ==
    {[text |-> Decimal(n), value |-> Big(n)] : n \in 0..MaxAmount}
        \cup {[text |-> Decimal(n), value |-> Big(n)] : n \in {50, 100, 1000}}
        \cup {[text |-> <<"1", "6", "7", "7", "7", "2", "1", "6">>, value |-> Pow2Big(24)],
              [text |-> <<"4", "2", "9", "4", "9", "6", "7", "2", "9", "6">>, value |-> Pow2Big(32)],
              [text |-> <<"1", "8", "0", "1", "4", "3", "9", "8", "5", "0", "9", "4", "8", "1", "9", "8", "4">>, value |-> Pow2Big(54)],
              [text |-> <<"1", "8", "4", "4", "6", "7", "4", "4", "0", "7", "3", "7", "0", "9", "5", "5", "1", "6", "1", "5">>, value |-> ULONG_MAX]}
Spaces == {<<>>, <<" ">>}
Suffixes ==
    {<<"K">>, <<"k">>, <<"M">>, <<"m">>, <<"G">>, <<"g">>, <<"T">>, <<"t">>, <<"%">>, <<>>, <<"B">>, <<"M", "i", "B">>}
MemTotals ==
    {<<>>, Big(1), Big(1000), Big(4096), Pow2Big(34), Pow2Big(60), ULONG_MAX}

AbsoluteCalls ==
    {[fn |-> "memory_absolute", mem_amount |-> n.text \o sp \o sfx,
      mem_total |-> t] :
        n \in Numerals, sp \in Spaces, sfx \in Suffixes, t \in MemTotals}

InitAbsolute ==
    /\ platform = "linux"
    /\ args \in AbsoluteCalls
    /\ meminfo = <<>>
    /\ ret = NoRet
    /\ Locals

CallMemoryAbsolute ==
    /\ args.fn = "memory_absolute"
    /\ ~ret.returned
    /\ ret' = Returned(memory_absolute(args.mem_amount, args.mem_total))
    /\ UNCHANGED <<platform, args, meminfo, pc, unread_fields, ram, page_size,
                   output_color, selected_format, walk, buffer, sink, stderr,
                   seen, undef>>

NextAbsolute == CallMemoryAbsolute

SpecAbsolute == InitAbsolute /\ [][NextAbsolute]_vars

\* A byte count is one of 0..MaxBytes or lies at, just below or just above
\* a power of BINARY_BASE, 2^DBL_MANT_DIG or 2^ULONG_BITS.
MaxBytes == 2
ByteCounts ==
    {Big(n) : n \in 0..MaxBytes}
        \cup {Big(512), Big(1536), Big(1048575)}
        \cup {Sub(PowBase(e), Big(1)) : e \in 1..6}
        \cup {PowBase(e) : e \in 1..6}
        \cup {Add(PowBase(e), Big(1)) : e \in 1..6}
        \cup {Add(Pow2Big(DBL_MANT_DIG), Big(n)) : n \in 0..3}
        \cup {USub(<<>>, Big(n)) : n \in {1, 1024, 1025}}
HumanUnits == {<<"a", "u", "t", "o">>, <<"B">>, <<"K", "i", "B">>, <<"k", "i", "b">>, <<"M", "i", "B">>, <<"G", "i", "B">>, <<"T", "i", "B">>, <<"t", "i", "b">>, <<"K">>}

HumanCalls ==
    {[fn |-> "print_bytes_human", bytes |-> b, unit |-> u, decimals |-> d] :
        b \in ByteCounts, u \in HumanUnits, d \in {1}}

InitHuman ==
    /\ platform = "linux"
    /\ args \in HumanCalls
    /\ meminfo = <<>>
    /\ ret = NoRet
    /\ Locals

CallPrintBytesHuman ==
    /\ args.fn = "print_bytes_human"
    /\ ~ret.returned
    /\ ret' = Returned(print_bytes_human(args.bytes, args.unit, args.decimals))
    /\ UNCHANGED <<platform, args, meminfo, pc, unread_fields, ram, page_size,
                   output_color, selected_format, walk, buffer, sink, stderr,
                   seen, undef>>

NextHuman == CallPrintBytesHuman

SpecHuman == InitHuman /\ [][NextHuman]_vars

----------------------------------------------------------------------------
(* Claims about memory_absolute (SpecAbsolute).                            *)

\* The case labels of the switch with the number of multiplications by
\* BINARY_BASE each one runs through.
IecPowers ==
    {<<"K", 1>>, <<"k", 1>>, <<"M", 2>>, <<"m", 2>>,
     <<"G", 3>>, <<"g", 3>>, <<"T", 4>>, <<"t", 4>>}

\* The powers the specification lists for the same case labels.
ListedPowers ==
    {<<"K", 1>>, <<"k", 1>>, <<"M", 3>>, <<"m", 3>>,
     <<"G", 4>>, <<"g", 4>>, <<"T", 5>>, <<"t", 5>>}

\* C1, as amended: for every N and every mem_total, memory_absolute resolves
\* "<N>K" (or k) to N*1024, "<N>M" (or m) to N*1024^2, "<N>G" (or g) to
\* N*1024^3 and "<N>T" (or t) to N*1024^4, each reduced modulo 2^64.
C1_SuffixScales ==
    ret.returned =>
        \A n \in Numerals, p \in IecPowers :
            args.mem_amount = n.text \o <<p[1]>> =>
                ret.value = Wrap64(Mul(n.value, PowBase(p[2])))

\* C1 witness: "3T" has been resolved to 3 * 1024^4.
C1_Witness ==
    /\ ret.returned
    /\ args.mem_amount = <<"3", "T">>
    /\ ret.value = <<0, 0, 0, 0, 3>>

\* C1 as stated: "<N>K" resolves to N*1024, "<N>M" to N*1024^3, "<N>G" to
\* N*1024^4 and "<N>T" to N*1024^5, whatever mem_total is.
C1_AsStated ==
    ret.returned =>
        \A n \in Numerals, p \in ListedPowers :
            args.mem_amount = n.text \o <<p[1]>> =>
                ret.value = Mul(n.value, PowBase(p[2]))

\* C4 as stated: for every "<N>%" and every mem_total, memory_absolute
\* returns the floor of the exact quotient mem_total * N / 100.
C4_PercentIsExactQuotient ==
    ret.returned =>
        \A n \in Numerals :
            args.mem_amount = n.text \o <<"%">> =>
                ret.value = DivSmall(Mul(args.mem_total, n.value), 100)

----------------------------------------------------------------------------
(* Claims about print_bytes_human (SpecHuman).                             *)

\* The loop stops at unit index e.
StopsAt(b, u, e) ==
    \/ Less(b, PowBase(e + 1))
    \/ e = MAX_EXPONENT
    \/ strcasecmp0(u, iec_symbols[e + 1])

\* The smallest unit index the loop stops at.
UnitIndex(b, u) ==
    CHOOSE e \in 0..MAX_EXPONENT :
        /\ StopsAt(b, u, e)
        /\ \A f \in 0..(e - 1) : ~StopsAt(b, u, f)

\* The three renderings the specification gives, under a unit setting that
\* names no unit.
HumanExamples ==
    args.unit = <<"a", "u", "t", "o">> =>
        /\ args.bytes = Big(512) =>
               /\ ret.value.symbol = <<"B">>
               /\ ret.value.base = [m |-> <<512>>, e |-> 0]
        /\ args.bytes = Big(1024) =>
               /\ ret.value.symbol = <<"K", "i", "B">>
               /\ ret.value.base = [m |-> <<1>>, e |-> 0]
        /\ args.bytes = Big(1048576) =>
               /\ ret.value.symbol = <<"M", "i", "B">>
               /\ ret.value.base = [m |-> <<1>>, e |-> 0]

\* C8, as amended: for every byte count b and unit setting u,
\* print_bytes_human prints the unit of the smallest index e in 0..4 with
\* b / 1024^e < 1024, or e = 4, or iec_symbols[e] equal to u without regard
\* to case; the value printed is (double)b / 1024^e, where (double)b is b
\* rounded to 53 significant bits (b itself when b < 2^53).  With no unit
\* named, 512 prints as 512 B, 1024 as 1 KiB and 1048576 as 1 MiB.
C8_UnitAndValue ==
    ret.returned =>
        LET e == UnitIndex(args.bytes, args.unit)
        IN  /\ ret.value.symbol = iec_symbols[e + 1]
            /\ ret.value.base = Dbl(ToDouble(args.bytes), e)
            /\ ret.value.decimals = args.decimals
            /\ HumanExamples

\* C8 witness: 2^53 + 1 bytes were printed as 2^53 / 1024^4 TiB.
C8_Witness ==
    /\ ret.returned
    /\ args.bytes = Add(Pow2Big(DBL_MANT_DIG), Big(1))
    /\ args.unit = <<"a", "u", "t", "o">>
    /\ ret.value.symbol = <<"T", "i", "B">>
    /\ ret.value.base = Dbl(Pow2Big(DBL_MANT_DIG), MAX_EXPONENT)

\* C8 as stated: the unit is chosen as above and the value printed is
\* b / 1024^e.
C8_AsStated ==
    ret.returned =>
        LET e == UnitIndex(args.bytes, args.unit)
        IN  /\ ret.value.symbol = iec_symbols[e + 1]
            /\ ret.value.base = Dbl(args.bytes, e)
            /\ HumanExamples

----------------------------------------------------------------------------
(* Claims about print_memory (Spec).                                       *)

\* The format loop has been entered, so the read succeeded.
ReadSucceeded == walk > 0
\* Both threshold tests are behind.
Classified == pc \in {"output_color", "format"} \/ (pc = "done" /\ ReadSucceeded)
\* ram_used has been computed.
UsedComputed == pc \in {"threshold_degraded", "threshold_critical"} \/ Classified

ReaderVars == {FIELDS[i].var : i \in 1..Len(FIELDS)}

\* C2 as stated: when the whole input has been read and fewer than six of
\* the required fields were in it, print_memory emits "can't read memory"
\* and neither evaluates a threshold nor renders a template.
C2_IncompleteReadFails ==
    (/\ platform = "linux"
     /\ pc \notin {"entry", "fgets", "fclose"}
     /\ meminfo = <<>>
     /\ seen # ReaderVars) =>
        /\ pc \in {"error", "done"}
        /\ pc = "done" => sink = ErrorEvents
        /\ output_color = NoColor
        /\ buffer = <<>>

\* C3: after a successful read the colour is critical if a critical
\* threshold is configured and available is below it, else degraded if a
\* degraded threshold is configured and available is below it, else none; a
\* threshold that is not configured is not evaluated.
C3_ColourState ==
    Classified =>
        output_color =
            IF /\ args.threshold_critical # NULL
               /\ Less(ram.ram_available,
                       memory_absolute(args.threshold_critical, ram.ram_total))
            THEN "color_bad"
            ELSE IF /\ args.threshold_degraded # NULL
                    /\ Less(ram.ram_available,
                            memory_absolute(args.threshold_degraded, ram.ram_total))
            THEN "color_degraded"
            ELSE NoColor

\* C3 witness: both thresholds are configured, every field was read, and
\* available is below the degraded threshold only.
C3_Witness ==
    /\ pc = "format"
    /\ seen = ReaderVars
    /\ args.threshold_degraded # NULL
    /\ args.threshold_critical # NULL
    /\ output_color = "color_degraded"

\* C5: used is total - available under memavailable and
\* total - free - buffers - cached under classical, in unsigned long: adding
\* what was subtracted gives total back modulo 2^64, also when the
\* subtraction wrapped.
C5_UsedIsMachineSubtraction ==
    UsedComputed =>
        /\ args.memory_used_method = <<"m", "e", "m", "a", "v", "a", "i", "l", "a", "b", "l", "e">> =>
               Wrap64(Add(ram.ram_used, ram.ram_available)) = ram.ram_total
        /\ args.memory_used_method = <<"c", "l", "a", "s", "s", "i", "c", "a", "l">> =>
               Wrap64(Add(Add(Add(ram.ram_used, ram.ram_cached),
                              ram.ram_buffers), ram.ram_free)) = ram.ram_total
        /\ args.memory_used_method \in {<<"m", "e", "m", "a", "v", "a", "i", "l", "a", "b", "l", "e">>, <<"c", "l", "a", "s", "s", "i", "c", "a", "l">>} =>
               Less(ram.ram_used, TwoTo64)

\* C5 witness: under classical, with every field read, the counters
\* subtracted exceed total and used has wrapped.
C5_Witness ==
    /\ UsedComputed
    /\ seen = ReaderVars
    /\ args.memory_used_method = <<"c", "l", "a", "s", "s", "i", "c", "a", "l">>
    /\ Less(ram.ram_total, ram.ram_free)
    /\ Less(ram.ram_total, ram.ram_used)

\* The template s with every '%' followed by a token name replaced by what
\* that token prints, every other character copied, and a '%' followed by no
\* token name copied as '%' with the scan resuming right after it.
RECURSIVE Rendered(_)
Rendered(s) ==
    IF s = <<>> THEN <<>>
    ELSE IF Head(s) # "%" THEN <<Lit(Head(s))>> \o Rendered(Tail(s))
    ELSE IF \E i \in 1..Len(TOKENS) : BEGINS_WITH(Tail(s), TOKENS[i].name)
    THEN LET i == CHOOSE i \in 1..Len(TOKENS) :
                      BEGINS_WITH(Tail(s), TOKENS[i].name)
         IN  <<TokenItem(i, ram, args.unit, args.decimals)>>
                 \o Rendered(SubSeq(s, Len(TOKENS[i].name) + 2, Len(s)))
    ELSE <<Lit("%")>> \o Rendered(Tail(s))

\* C6: the text print_memory emits after a successful read is the selected
\* template rendered as above.
C6_TemplateRendering ==
    (pc = "done" /\ ReadSucceeded) =>
        sink[Len(sink)].text = Rendered(Template)

\* C6 witness: "%used/%total" was rendered into two values around a '/'.
C6_Witness ==
    /\ pc = "done"
    /\ ReadSucceeded
    /\ Template = <<"%", "u", "s", "e", "d", "/", "%", "t", "o", "t", "a", "l">>
    /\ Len(sink[Len(sink)].text) = 3
    /\ sink[Len(sink)].text[2] = Lit("/")

\* C7: the template rendered is the degraded format exactly when the colour
\* state is degraded or critical and a degraded format is configured, and
\* the primary format otherwise.
C7_FormatSelection ==
    (pc = "format" \/ (pc = "done" /\ ReadSucceeded)) =>
        IF /\ output_color \in {"color_degraded", "color_bad"}
           /\ args.format_degraded # NULL
        THEN selected_format = "format_degraded"
        ELSE selected_format = "format"

\* C7 witness: the critical state has selected the degraded format.
C7_Witness ==
    /\ pc = "format"
    /\ output_color = "color_bad"
    /\ selected_format = "format_degraded"

\* C9 as stated: print_memory is deterministic in its arguments and the
\* lines it read: no value that went into used, the colour or the text was
\* indeterminate.
C9_OnlyInputsUsed == undef = {}

\* The positions in sink of the events of one kind.
Events(kind) == {i \in 1..Len(sink) : sink[i].ev = kind}

\* C10: one full text is emitted per call, last; START_COLOR is emitted at
\* most once, only in the degraded or critical state, and is then followed
\* by exactly one END_COLOR before the full text; on the read-failure and
\* unsupported-platform paths no colour marker is emitted and the text is a
\* literal, not the buffer.
C10_OutputAndColourMarkers ==
    /\ Cardinality(Events("OUTPUT_FULL_TEXT")) = IF pc = "done" THEN 1 ELSE 0
    /\ Cardinality(Events("START_COLOR")) <= 1
    /\ \A i \in Events("START_COLOR") :
           /\ output_color \in {"color_degraded", "color_bad"}
           /\ sink[i].color = output_color
    /\ pc # "done" => Events("END_COLOR") = {}
    /\ (pc = "done" /\ ReadSucceeded) =>
           sink = IF output_color # NoColor
                  THEN <<START_COLOR(output_color), END_COLOR,
                         OUTPUT_FULL_TEXT(buffer)>>
                  ELSE <<OUTPUT_FULL_TEXT(buffer)>>
    /\ (pc = "done" /\ ~ReadSucceeded) =>
           sink = IF platform = "other"
                  THEN <<OUTPUT_FULL_TEXT(<<>>)>>
                  ELSE <<OUTPUT_FULL_TEXT(Text(<<"c", "a", "n", "'", "t", " ", "r", "e", "a", "d", " ", "m", "e", "m", "o", "r", "y">>))>>

\* C10 witness: a call has ended with the text between a colour pair.
C10_Witness ==
    /\ pc = "done"
    /\ Len(sink) = 3
    /\ sink[1].ev = "START_COLOR"
    /\ sink[2].ev = "END_COLOR"

====
